---------------------------- MODULE Spec2Model ----------------------------
(***************************************************************************)
(* A model of switchbot_bot (src/main.go): the SwitchBot -> Mastodon       *)
(* pipeline, its Backoff Fetcher (requestWithBackoff), the History Parser  *)
(* (extractRecentMessagesForDevice, extractFloatValue, extractIntValue),   *)
(* the Duplicate Detector (isRepeated, ptrEquals) and the Message Composer *)
(* (generateStatusMessage).                                                *)
(*                                                                         *)
(* Texts are sequences of symbols.  A digit, ".", "-", "<", ">" and "%"    *)
(* are single characters; each fixed piece of the message template is one  *)
(* symbol (the label "Temp: " stands for the source's temperature label,   *)
(* "Deg" for its degree suffix, "Hum: " for the humidity label, and "Warn",*)
(* "Batt", "Fire", "Wind", "Tree" for the emoji).  A device name is a      *)
(* sequence of symbols.                                                    *)
(*                                                                         *)
(* A nullable pointer to an int or a float64 is a sequence of length 0 or  *)
(* 1.                                                                      *)
(* A float64 decoded from a short decimal is the pair [m, e] that stands   *)
(* for m / 10^e, kept normalised (no trailing zero in the fraction), so    *)
(* that == on float64 is = on pairs.                                       *)
(***************************************************************************)
EXTENDS Integers, Sequences, FiniteSets, TLC

VARIABLES
    \* ---- one run of handler -------------------------------------------
    pc,         \* where the run is: "start", "fetchDevices", "fetchPosts",
                \*   "loop", "fetchStatus", "metric", "compose", "publish",
                \*   "done"; "alone" while requestWithBackoff runs on its
                \*   own (SpecFetch), "off" in SpecDetect
    feed,       \* the account's posts on the feed, newest first
    devices,    \* the directory listing
    posts,      \* the recent posts fetched for this run
    devIndex,   \* the place of the loop in devices
    status,     \* the reading of the device at devIndex
    messages,   \* the messages composed so far
    sources,    \* for each message, the place of its device and its reading
    metrics,    \* the PutMetric calls of the run: device id, data points sent
    published,  \* the texts handed to postToMastodon, in order
    result,     \* what handler returned: "nil" or the failed step; "none"
                \*   while it runs
    fetched,    \* the fetchDeviceStatus calls that returned: the place of
                \*   the device and the error
    directoryErr,   \* the error fetchDevices returned; "none" before
    historyFetches, \* how each call of fetchRecentMastodonPosts ended
    postOutcome,    \* how postToMastodon ended; "none" while not called
    env,        \* where the run executes and the post count it is given
    batteryCheckPostCount,  \* the global the recent-posts query reads
    config,     \* the global loadConfig fills
    \* ---- one call of requestWithBackoff --------------------------------
    rqpc,       \* "idle" | "get" | "sleep" | "returned"
    attempt,    \* the loop variable of requestWithBackoff
    out,        \* the SwitchBotResponse the attempts decode into
    rqErr,      \* the error returned: "nil", "http", "read", "unmarshal",
                \*   "unexpected", "maxretries", "unreachable"; "none" before
    errCode,    \* the statusCode carried by the returned error
    errMsg,     \* the message carried by the returned error
    gets,       \* GET attempts made by the current call
    sleeps,     \* the time.Sleep durations of the current call, in seconds
    resps,      \* the responses the current call has received, in order
    headers,    \* the headers the caller handed to the current call
    sent,       \* the headers of the GET requests of the current call
    nextNonce,  \* the next value uuid.New() gives
    \* ---- the Duplicate Detector and the Message Composer applied to one
    \* ---- reading and one list of previous messages ---------------------
    dpc,           \* "start" | "extracted" | "detected" | "composed" |
                   \*   "reparsed"; "off" outside SpecDetect
    current,       \* the reading (SwitchBotDeviceStatus)
    previousMessages, \* the history entries handed to isRepeated
    repeated,      \* isRepeated's result
    emoji,         \* batteryStatusEmoji's result ("" while none)
    message,       \* the composed message
    reparsed,      \* the fields extracted from the composed message
    again,         \* isRepeated(current, [message])
    dName,         \* the display name of the device
    dPosts         \* the posts (raw content) the history is drawn from

vars == <<pc, feed, devices, posts, devIndex, status, messages, sources, metrics,
          published, result, fetched, directoryErr, historyFetches,
          postOutcome, env, batteryCheckPostCount, config, rqpc, attempt, out, rqErr, errCode, errMsg, gets, sleeps, resps,
          headers, sent, nextNonce,
          dpc, current, previousMessages, repeated, emoji, message, reparsed,
          again, dName, dPosts>>

hVars == <<feed, devices, posts, devIndex, status, messages, sources, metrics,
           published, result>>
gVars == <<fetched, directoryErr, historyFetches, postOutcome>>
cVars == <<env, batteryCheckPostCount, config>>
rqVars == <<rqpc, attempt, out, rqErr, errCode, errMsg, gets, sleeps, resps,
            headers, sent, nextNonce>>
dVars == <<dpc, current, previousMessages, repeated, emoji, message, reparsed,
           again, dName, dPosts>>

-----------------------------------------------------------------------------
(* Nullable pointers *)

Nil == <<>>
Some(v) == <<v>>
IsNil(p) == p = <<>>
Deref(p) == p[1]

-----------------------------------------------------------------------------
(* Characters and numbers *)

DigitChars == <<"0", "1", "2", "3", "4", "5", "6", "7", "8", "9">>
IsDigit(c) == \E i \in 1..Len(DigitChars) : DigitChars[i] = c
DigitVal(c) == (CHOOSE i \in 1..Len(DigitChars) : DigitChars[i] = c) - 1
DigitChar(d) == DigitChars[d + 1]

\* the regular expression class [\d.]
IsDigitOrDot(c) == IsDigit(c) \/ c = "."

Abs(n) == IF n < 0 THEN 0 - n ELSE n

RECURSIVE Pow10(_)
Pow10(e) == IF e = 0 THEN 1 ELSE 10 * Pow10(e - 1)

\* the float64 with the value m / 10^e
RECURSIVE Num(_, _)
Num(m, e) ==
    IF e > 0 /\ m % 10 = 0 THEN Num(m \div 10, e - 1)
    ELSE [m |-> m, e |-> e]

\* the decimal digits of a natural number (strconv / fmt %d)
RECURSIVE NatDigits(_)
NatDigits(n) ==
    IF n < 10 THEN <<DigitChar(n)>>
    ELSE Append(NatDigits(n \div 10), DigitChar(n % 10))

\* fmt's %d
FormatInt(n) == IF n < 0 THEN <<"-">> \o NatDigits(0 - n) ELSE NatDigits(n)

\* |x| in tenths rounded to the nearest tenth.  A tie is decided on the
\* binary value: a decimal that is exact in binary (5^e divides m) rounds
\* half to even; the readings of the model hold no other tie.
RoundTenths(a, e) ==
    IF e = 0 THEN a * 10
    ELSE IF e = 1 THEN a
    ELSE LET p == Pow10(e - 1)
             q == a \div p
             r == a % p
         IN  IF 2 * r > p THEN q + 1
             ELSE IF 2 * r < p THEN q
             ELSE IF q % 2 = 0 THEN q ELSE q + 1

\* fmt's %.1f (the sign is printed for every negative value, -0.04 gives -0.0)
FormatOneDecimal(x) ==
    LET t == RoundTenths(Abs(x.m), x.e)
    IN  (IF x.m < 0 THEN <<"-">> ELSE <<>>)
            \o NatDigits(t \div 10) \o <<".", DigitChar(t % 10)>>

\* the value of a run of digits
RECURSIVE DigitsValue(_)
DigitsValue(s) ==
    IF Len(s) = 0 THEN 0
    ELSE 10 * DigitsValue(SubSeq(s, 1, Len(s) - 1)) + DigitVal(s[Len(s)])

\* strconv.Atoi on a run of digits: Nil on error
Atoi(s) ==
    IF Len(s) >= 1 /\ \A i \in 1..Len(s) : IsDigit(s[i])
    THEN Some(DigitsValue(s))
    ELSE Nil

\* strconv.ParseFloat on a run of [\d.]: digits with at most one ".", at
\* least one digit; Nil on error
ParseFloat(s) ==
    LET dots == {i \in 1..Len(s) : s[i] = "."}
    IN  IF Cardinality(dots) > 1 \/ Len(s) - Cardinality(dots) < 1 THEN Nil
        ELSE IF dots = {} THEN Some(Num(DigitsValue(s), 0))
        ELSE LET d == CHOOSE i \in dots : TRUE
             IN  Some(Num(DigitsValue(SubSeq(s, 1, d - 1) \o SubSeq(s, d + 1, Len(s))),
                          Len(s) - d))

-----------------------------------------------------------------------------
(* Texts *)

\* strings.Index: the 0-based place of the first occurrence of sub, or -1
stringsIndex(text, sub) ==
    LET at == {i \in 1..(Len(text) - Len(sub) + 1) :
                   SubSeq(text, i, i + Len(sub) - 1) = sub}
    IN  IF at = {} THEN 0 - 1
        ELSE (CHOOSE i \in at : \A j \in at : i <= j) - 1

\* text[idx:] for a 0-based idx
SliceFrom(text, idx) == SubSeq(text, idx + 1, Len(text))

\* htmlTagRe `<.*?>` at place i: the place of the nearest ">" after a "<" at
\* i with no line feed in between ("." matches no line feed), or 0
TagEnd(text, i) ==
    LET ends == {j \in (i + 1)..Len(text) :
                    /\ text[j] = ">"
                    /\ \A k \in (i + 1)..(j - 1) : text[k] # "LF"}
    IN  IF text[i] # "<" \/ ends = {} THEN 0
        ELSE CHOOSE j \in ends : \A k \in ends : j <= k

RECURSIVE StripFrom(_, _)
StripFrom(text, i) ==
    IF i > Len(text) THEN <<>>
    ELSE LET end == TagEnd(text, i)
         IN  IF end # 0 THEN StripFrom(text, end + 1)
             ELSE <<text[i]>> \o StripFrom(text, i + 1)

\* htmlTagRe.ReplaceAllString(input, "")
stripHTMLTags(input) == StripFrom(input, 1)

makeDeviceHeader(deviceName) == <<"# ">> \o deviceName

\* the suffix of every post that holds the device's header, from the header on
RECURSIVE extractRecentMessagesForDevice(_, _)
extractRecentMessagesForDevice(deviceName, ps) ==
    IF ps = <<>> THEN <<>>
    ELSE LET text == stripHTMLTags(Head(ps))
             idx == stringsIndex(text, makeDeviceHeader(deviceName))
             rest == extractRecentMessagesForDevice(deviceName, Tail(ps))
         IN  IF idx # 0 - 1 THEN <<SliceFrom(text, idx)>> \o rest ELSE rest

-----------------------------------------------------------------------------
(* The History Parser's patterns: label ([class]+)suffix *)

TempPattern == [label |-> "Temp: ", dot |-> TRUE, suffix |-> "Deg"]
HumPattern == [label |-> "Hum: ", dot |-> TRUE, suffix |-> "%"]
CO2Pattern == [label |-> "CO2: ", dot |-> FALSE, suffix |-> "ppm"]

InClass(c, pattern) == IsDigit(c) \/ (pattern.dot /\ c = ".")

\* the length of the longest run of class characters that starts at place i
RunLen(text, i, pattern) ==
    LET stop == {j \in i..(Len(text) + 1) :
                    j = Len(text) + 1 \/ ~InClass(text[j], pattern)}
    IN  (CHOOSE j \in stop : \A k \in stop : j <= k) - i

\* the pattern matches at place i: the label, a run of one or more class
\* characters (the greedy run: the suffix is no class character), the suffix
MatchesAt(text, i, pattern) ==
    LET n == RunLen(text, i + 1, pattern)
    IN  /\ text[i] = pattern.label
        /\ n >= 1
        /\ i + n + 1 <= Len(text)
        /\ text[i + n + 1] = pattern.suffix

\* regexp FindStringSubmatch: Some(capture group of the leftmost match), or
\* Nil when nothing matches (len(matches) < 2)
FindStringSubmatch(text, pattern) ==
    LET at == {i \in 1..Len(text) : MatchesAt(text, i, pattern)}
    IN  IF at = {} THEN Nil
        ELSE LET i == CHOOSE j \in at : \A k \in at : j <= k
             IN  Some(SubSeq(text, i + 1, i + RunLen(text, i + 1, pattern)))

extractFloatValue(text, pattern) ==
    LET matches == FindStringSubmatch(text, pattern)
    IN  IF IsNil(matches) THEN Nil ELSE ParseFloat(Deref(matches))

extractIntValue(text, pattern) ==
    LET matches == FindStringSubmatch(text, pattern)
    IN  IF IsNil(matches) THEN Nil ELSE Atoi(Deref(matches))

-----------------------------------------------------------------------------
(* The Duplicate Detector *)

\* a slip: an absent value equals anything
ptrEqualsNilAny(a, b) ==
    IF IsNil(a) \/ IsNil(b) THEN TRUE ELSE Deref(a) = Deref(b)

ptrEquals(a, b) ==
    IF IsNil(a) \/ IsNil(b) THEN a = b ELSE Deref(a) = Deref(b)

\* the fields the History Parser recovers from one history entry
ParsedFields(msg) ==
    [Temperature |-> extractFloatValue(msg, TempPattern),
     Humidity |-> extractFloatValue(msg, HumPattern),
     CO2 |-> extractIntValue(msg, CO2Pattern)]

\* a slip: only the newest entry is compared
isRepeatedNewestOnly(cur, msgs) ==
    IF msgs = <<>> THEN TRUE
    ELSE LET msg == Head(msgs)
         IN  /\ ptrEquals(extractFloatValue(msg, TempPattern), cur.Temperature)
             /\ ptrEquals(extractFloatValue(msg, HumPattern), cur.Humidity)
             /\ ptrEquals(extractIntValue(msg, CO2Pattern), cur.CO2)

RECURSIVE isRepeated(_, _)
isRepeated(cur, msgs) ==
    IF msgs = <<>> THEN TRUE
    ELSE LET msg == Head(msgs)
             temp == extractFloatValue(msg, TempPattern)
             hum == extractFloatValue(msg, HumPattern)
             co2 == extractIntValue(msg, CO2Pattern)
         IN  IF \/ ~ptrEquals(temp, cur.Temperature)
                \/ ~ptrEquals(hum, cur.Humidity)
                \/ ~ptrEquals(co2, cur.CO2)
             THEN FALSE
             ELSE isRepeated(cur, Tail(msgs))

\* a variant of batteryStatusEmoji with the two symbols exchanged
batteryStatusEmojiInverted(deviceName, ps, st) ==
    IF isRepeated(st, extractRecentMessagesForDevice(deviceName, ps))
    THEN "Batt"
    ELSE "Warn"

batteryStatusEmoji(deviceName, ps, st) ==
    IF isRepeated(st, extractRecentMessagesForDevice(deviceName, ps))
    THEN "Warn"
    ELSE "Batt"

-----------------------------------------------------------------------------
(* The Message Composer: the text generateStatusMessage builds *)

\* a variant of CO2Icon with strict comparisons
CO2IconStrict(co2) ==
    IF co2 > 1500 THEN "Fire"
    ELSE IF co2 > 1000 THEN "Wind"
    ELSE "Tree"

CO2Icon(co2) ==
    IF co2 >= 1500 THEN "Fire"
    ELSE IF co2 >= 1000 THEN "Wind"
    ELSE "Tree"

\* a variant of StatusMessage that writes the humidity before the temperature
StatusMessageHumidityFirst(deviceName, ps, st) ==
    makeDeviceHeader(deviceName)
    \o (IF ~IsNil(st.Battery)
        THEN <<" (", batteryStatusEmoji(deviceName, ps, st)>>
                 \o FormatInt(Deref(st.Battery)) \o <<"%", ")">>
        ELSE <<>>)
    \o <<"LF">>
    \o (IF ~IsNil(st.Humidity)
        THEN <<"Hum: ">> \o FormatOneDecimal(Deref(st.Humidity))
                 \o <<"%", "LF">>
        ELSE <<>>)
    \o (IF ~IsNil(st.Temperature)
        THEN <<"Temp: ">> \o FormatOneDecimal(Deref(st.Temperature))
                 \o <<"Deg", "LF">>
        ELSE <<>>)
    \o (IF ~IsNil(st.CO2)
        THEN <<"CO2: ">> \o FormatInt(Deref(st.CO2))
                 \o <<"ppm", " ", CO2Icon(Deref(st.CO2)), "LF">>
        ELSE <<>>)

StatusMessage(deviceName, ps, st) ==
    makeDeviceHeader(deviceName)
    \o (IF ~IsNil(st.Battery)
        THEN <<" (", batteryStatusEmoji(deviceName, ps, st)>>
                 \o FormatInt(Deref(st.Battery)) \o <<"%", ")">>
        ELSE <<>>)
    \o <<"LF">>
    \o (IF ~IsNil(st.Temperature)
        THEN <<"Temp: ">> \o FormatOneDecimal(Deref(st.Temperature))
                 \o <<"Deg", "LF">>
        ELSE <<>>)
    \o (IF ~IsNil(st.Humidity)
        THEN <<"Hum: ">> \o FormatOneDecimal(Deref(st.Humidity))
                 \o <<"%", "LF">>
        ELSE <<>>)
    \o (IF ~IsNil(st.CO2)
        THEN <<"CO2: ">> \o FormatInt(Deref(st.CO2))
                 \o <<"ppm", " ", CO2Icon(Deref(st.CO2)), "LF">>
        ELSE <<>>)

-----------------------------------------------------------------------------
(* The inputs of the model *)

\* the longest list of posts the recent-posts query returns in the model
MaxPosts == 2

SeqsUpTo(S, n) == UNION {[1..k -> S] : k \in 0..n}

NameLiving == <<"Living">>
NameLivingRoom == <<"Living", " Room">>
NameBed == <<"Bed">>

Reading(b, t, h, c) == [Battery |-> b, Temperature |-> t, Humidity |-> h, CO2 |-> c]

\* 23.5, -5.0 and 23.47 degrees
Temperatures == {Num(235, 1), Num(0 - 50, 1), Num(2347, 2)}
Humidities == {Num(452, 1)}
CO2s == {0, 800}
Batteries == {80}

Opt(S) == {Nil} \cup {Some(v) : v \in S}

\* the values around the CO2 tiers
TierCO2s == {999, 1000, 1499, 1500}

Readings ==
    {Reading(b, t, h, c) : b \in Opt(Batteries), t \in Opt(Temperatures),
                           h \in Opt(Humidities), c \in Opt(CO2s)}
        \cup {Reading(Nil, Nil, Nil, Some(c)) : c \in TierCO2s}

\* the readings earlier runs published: 23.5 and 23.6 degrees
PublishedReadings ==
    {Reading(Nil, Some(Num(235, 1)), Some(Num(452, 1)), Some(800)),
     Reading(Nil, Some(Num(236, 1)), Some(Num(452, 1)), Some(800)),
     Reading(Nil, Some(Num(235, 1)), Nil, Some(800)),
     Reading(Nil, Some(Num(235, 1)), Some(Num(452, 1)), Nil),
     Reading(Nil, Nil, Nil, Nil)}

\* the feed's rendering of a published text: one paragraph, a line break tag
\* for every line feed
RECURSIVE BreakLines(_)
BreakLines(text) ==
    IF text = <<>> THEN <<>>
    ELSE (IF Head(text) = "LF" THEN <<"<", "br /", ">">> ELSE <<Head(text)>>)
             \o BreakLines(Tail(text))

RenderPost(text) == <<"<", "p", ">">> \o BreakLines(text) \o <<"<", "/p", ">">>

\* posts written by hand: no device header at all; a temperature printed
\* with two decimals; a temperature that is no number
HandPosts ==
    {RenderPost(<<"hello">>),
     RenderPost(makeDeviceHeader(NameLiving)
                    \o <<"LF", "Temp: ", "2", "3", ".", "5", "0", "Deg", "LF">>),
     RenderPost(makeDeviceHeader(NameLiving)
                    \o <<"LF", "Temp: ", "1", ".", "2", ".", "3", "Deg", "LF">>)}

PostTexts ==
    {RenderPost(StatusMessage(NameLiving, <<>>, r)) : r \in PublishedReadings}
        \cup {RenderPost(StatusMessage(NameBed, <<>>, Reading(Nil, Some(Num(235, 1)), Nil, Nil)))}
        \cup HandPosts

-----------------------------------------------------------------------------
(* The Backoff Fetcher: requestWithBackoff *)

\* what one GET brings: a connection error ("http"), an error while the
\* body is read ("read"), a body that is no JSON envelope ("badjson"), or an
\* envelope {statusCode, message, body}.  The vendor's envelope names all
\* three; the fields of its body are optional, and a body field the JSON
\* does not name is Nil.
NoStatus == Reading(Nil, Nil, Nil, Nil)
Envelope(code, msg, body) ==
    [kind |-> "json", statusCode |-> code, message |-> msg, body |-> body]
Failure(kind) == [kind |-> kind, statusCode |-> 0, message |-> "", body |-> NoStatus]

TransportKinds == {"http", "read", "badjson"}

StatusCodes == {100, 190, 250}
Messages == {"success", "busy"}
StatusBodies ==
    {NoStatus,
     Reading(Some(80), Nil, Nil, Nil),
     Reading(Nil, Some(Num(235, 1)), Nil, Nil)}

\* the responses of SpecFetch
FetchResponses ==
    {Failure(k) : k \in TransportKinds}
        \cup {Envelope(c, m, b) : c \in StatusCodes, m \in Messages, b \in StatusBodies}

\* var resp SwitchBotResponse[SwitchBotDeviceStatus]
ZeroResponse == [StatusCode |-> 0, Message |-> "", Body |-> NoStatus]

\* json.Unmarshal(bodyBytes, out): a field the JSON names is set, a field it
\* does not name keeps the value out held before
Unmarshal(o, r) ==
    [StatusCode |-> r.statusCode,
     Message |-> r.message,
     Body |-> [f \in DOMAIN o.Body |->
                  IF IsNil(r.body[f]) THEN o.Body[f] ELSE r.body[f]]]

\* the decoding of a response into a fresh record
Decoded(r) == Unmarshal(ZeroResponse, r)

\* the error of the steps before the switch, "" when they succeed
TransportError(r) ==
    IF r.kind = "http" THEN "http"
    ELSE IF r.kind = "read" THEN "read"
    ELSE IF r.kind = "badjson" THEN "unmarshal"
    ELSE ""

\* a slip: one retry too few
MayRetryOneLess(att) == att < 3

\* a slip: a 190 is retried on every attempt
MayRetryAlways(att) == TRUE

\* case 190: if attempt < 4
MayRetry(att) == att < 4

\* a slip: a linear wait
BackoffSecondsLinear(att) == 2 * att + 1

RECURSIVE Pow2(_)
Pow2(n) == IF n = 0 THEN 1 ELSE 2 * Pow2(n - 1)

\* wait := time.Duration(1<<attempt) * time.Second
BackoffSeconds(att) == Pow2(att)

\* a slip: every status but 100 is retried
StatusClassRetryAll(code) == IF code = 100 THEN "ok" ELSE "retry"

\* switch out.StatusCode
StatusClass(code) ==
    IF code = 100 THEN "ok"
    ELSE IF code = 190 THEN "retry"
    ELSE "unexpected"

\* a slip: a transport failure is retried like a 190
ShouldSleepOnFailure(att, r) ==
    /\ MayRetry(att)
    /\ \/ r.kind # "json"
       \/ StatusClass(r.statusCode) = "retry"

\* the attempt ends in time.Sleep and continue
ShouldSleep(att, r) ==
    /\ r.kind = "json"
    /\ StatusClass(r.statusCode) = "retry"
    /\ MayRetry(att)

\* the error the attempt returns when it returns
ReturnedError(r) ==
    IF TransportError(r) # "" THEN TransportError(r)
    ELSE IF StatusClass(r.statusCode) = "ok" THEN "nil"
    ELSE IF StatusClass(r.statusCode) = "retry" THEN "maxretries"
    ELSE "unexpected"

\* ---- the inputs of a run of handler ----

\* the longest feed the run starts from
MaxFeed == 2

Device(id, type, name) == [DeviceID |-> id, DeviceType |-> type, DeviceName |-> name]
MeterLiving == Device("A", "Meter", NameLiving)
MeterProLivingRoom == Device("B", "MeterPro(CO2)", NameLivingRoom)
HubBed == Device("H", "Hub", NameBed)
PlusBed == Device("P", "MeterPlus", NameBed)

\* the directory listings the vendor returns
Directories ==
    {<<>>, <<PlusBed>>, <<MeterLiving>>, <<MeterLiving, MeterProLivingRoom>>,
     <<MeterProLivingRoom, MeterLiving>>, <<HubBed, MeterLiving>>}

\* the readings the vendor returns
BasicReading == Reading(Some(80), Some(Num(235, 1)), Some(Num(452, 1)), Nil)
WarmerReading == Reading(Some(80), Some(Num(236, 1)), Some(Num(452, 1)), Nil)
CO2Reading == Reading(Nil, Some(Num(235, 1)), Some(Num(452, 1)), Some(800))
DeviceReadings == {BasicReading, WarmerReading, CO2Reading}

\* var resp SwitchBotResponse[SwitchBotDeviceListBody]
ZeroDeviceList == [StatusCode |-> 0, Message |-> "", Body |-> [DeviceList |-> Nil]]

DirectoryResponses ==
    {Failure("http"),
     Envelope(190, "busy", [DeviceList |-> Nil]),
     Envelope(250, "bad request", [DeviceList |-> Nil])}
        \cup {Envelope(100, "success", [DeviceList |-> Some(d)]) : d \in Directories}

DeviceStatusResponses ==
    {Failure("http"), Envelope(190, "busy", NoStatus)}
        \cup {Envelope(100, "success", r) : r \in DeviceReadings}

\* strings.Join(messages, "\n")
RECURSIVE Join(_)
Join(msgs) ==
    IF msgs = <<>> THEN <<>>
    ELSE IF Len(msgs) = 1 THEN Head(msgs)
    ELSE Head(msgs) \o <<"LF">> \o Join(Tail(msgs))

\* the posts earlier runs left on the feed
FeedPosts ==
    {RenderPost(StatusMessage(NameLiving, <<>>, BasicReading)),
     RenderPost(Join(<<StatusMessage(NameLiving, <<>>, BasicReading),
                       StatusMessage(NameLivingRoom, <<>>, CO2Reading)>>)),
     RenderPost(StatusMessage(NameLivingRoom, <<>>, CO2Reading))}

\* var batteryCheckPostCount = 7
DefaultPostCount == 7

\* var config = Config{}
ZeroConfig == [BatteryCheckPostCount |-> 0]

\* where the run executes, the BATTERY_CHECK_POST_COUNT of the environment
\* and the BatteryCheckPostCount of config.json (Nil when not written)
Environment(lambda, envPostCount, fileCount) ==
    [lambda |-> lambda, envPostCount |-> envPostCount, fileCount |-> fileCount]

LambdaUnset == Environment(TRUE, <<>>, Nil)
LambdaOne == Environment(TRUE, <<"1">>, Nil)
LambdaZero == Environment(TRUE, <<"0">>, Nil)
StandaloneOne == Environment(FALSE, <<>>, Some(1))
Environments == {LambdaUnset, LambdaOne, LambdaZero, StandaloneOne}

\* loadConfig's assignment to batteryCheckPostCount: in the managed function
\* a positive BATTERY_CHECK_POST_COUNT; config.json never reaches it
LoadedPostCount(e, count) ==
    IF e.lambda /\ e.envPostCount # <<>> /\ ~IsNil(Atoi(e.envPostCount))
          /\ Deref(Atoi(e.envPostCount)) > 0
    THEN Deref(Atoi(e.envPostCount))
    ELSE count

\* loadConfig's assignment to config
LoadedConfig(e, count, c) ==
    IF e.lambda THEN [BatteryCheckPostCount |-> LoadedPostCount(e, count)]
    ELSE IF IsNil(e.fileCount) THEN c
    ELSE [BatteryCheckPostCount |-> Deref(e.fileCount)]

\* the run of handler is not modelled

HandlerOff ==
    /\ feed = <<>>
    /\ devices = <<>>
    /\ posts = <<>>
    /\ devIndex = 0
    /\ status = NoStatus
    /\ messages = <<>>
    /\ sources = <<>>
    /\ metrics = <<>>
    /\ published = <<>>
    /\ result = "none"
    /\ fetched = <<>>
    /\ directoryErr = "none"
    /\ historyFetches = <<>>
    /\ postOutcome = "none"
    /\ env = LambdaUnset
    /\ batteryCheckPostCount = DefaultPostCount
    /\ config = ZeroConfig

\* generateSwitchBotHeaders with uuid.New() = n: the signature is a keyed
\* hash over token, timestamp and nonce
generateSwitchBotHeaders(n) == [nonce |-> n, sign |-> <<"hmac", n>>]

NoHeaders == [nonce |-> 0, sign |-> <<>>]

\* no call of requestWithBackoff is running

RqIdle ==
    /\ rqpc = "idle"
    /\ attempt = 0
    /\ out = ZeroResponse
    /\ rqErr = "none"
    /\ errCode = 0
    /\ errMsg = ""
    /\ gets = 0
    /\ sleeps = <<>>
    /\ resps = <<>>
    /\ headers = NoHeaders
    /\ sent = <<>>
    /\ nextNonce = 1

\* the responses a GET can bring, by the call that is running
Responses ==
    IF pc = "fetchDevices" THEN DirectoryResponses
    ELSE IF pc = "fetchStatus" THEN DeviceStatusResponses
    ELSE FetchResponses

\* one iteration of the loop: the GET, the read, the decoding, the switch
Attempt ==
    /\ rqpc = "get"
    /\ \E r \in Responses :
        /\ gets' = gets + 1
        /\ resps' = Append(resps, r)
        /\ sent' = Append(sent, headers)
        /\ out' = IF r.kind = "json" THEN Unmarshal(out, r) ELSE out
        /\ IF ShouldSleep(attempt, r)
           THEN /\ rqpc' = "sleep"
                /\ sleeps' = Append(sleeps, BackoffSeconds(attempt))
                /\ UNCHANGED <<rqErr, errCode, errMsg>>
           ELSE /\ rqpc' = "returned"
                /\ rqErr' = ReturnedError(r)
                /\ errCode' = IF ReturnedError(r) = "unexpected"
                              THEN out'.StatusCode ELSE 0
                /\ errMsg' = IF ReturnedError(r) \in {"unexpected", "maxretries"}
                             THEN out'.Message ELSE ""
                /\ UNCHANGED sleeps
    /\ UNCHANGED <<pc, hVars, gVars, attempt, headers, nextNonce, cVars, dVars>>

\* a variant of WakeUp that starts the count of attempts again
WakeUpRestarts ==
    /\ rqpc = "sleep"
    /\ attempt' = 0
    /\ rqpc' = "get"
    /\ UNCHANGED <<pc, hVars, gVars, out, rqErr, errCode, errMsg, gets, sleeps,
                   resps, headers, sent, nextNonce, cVars, dVars>>

\* time.Sleep returns; continue: the next iteration, or the end of the loop
\* and the fall-through error
WakeUp ==
    /\ rqpc = "sleep"
    /\ attempt' = attempt + 1
    /\ IF attempt + 1 < 5
       THEN rqpc' = "get" /\ UNCHANGED rqErr
       ELSE rqpc' = "returned" /\ rqErr' = "unreachable"
    /\ UNCHANGED <<pc, hVars, gVars, out, errCode, errMsg, gets, sleeps, resps,
                   headers, sent, nextNonce, cVars, dVars>>

DetectOff ==
    /\ dpc = "off"
    /\ dName = <<>>
    /\ current = NoStatus
    /\ dPosts = <<>>
    /\ previousMessages = <<>>
    /\ repeated = FALSE
    /\ emoji = ""
    /\ message = <<>>
    /\ reparsed = [Temperature |-> Nil, Humidity |-> Nil, CO2 |-> Nil]
    /\ again = FALSE

\* SpecFetch: one call of requestWithBackoff, from its first iteration on
InitFetch ==
    /\ pc = "alone"
    /\ HandlerOff
    /\ rqpc = "get"
    /\ attempt = 0
    /\ out = ZeroResponse
    /\ rqErr = "none"
    /\ errCode = 0
    /\ errMsg = ""
    /\ gets = 0
    /\ sleeps = <<>>
    /\ resps = <<>>
    /\ headers = generateSwitchBotHeaders(1)
    /\ sent = <<>>
    /\ nextNonce = 2
    /\ DetectOff

NextFetch == Attempt \/ WakeUp

SpecFetch == InitFetch /\ [][NextFetch]_vars

-----------------------------------------------------------------------------
(* SpecDetect: the History Parser, the Duplicate Detector and the Message  *)
(* Composer applied to one device, one reading and one list of posts.      *)

NoFields == [Temperature |-> Nil, Humidity |-> Nil, CO2 |-> Nil]

InitDetect ==
    /\ pc = "off"
    /\ HandlerOff
    /\ RqIdle
    /\ dpc = "start"
    /\ dName = NameLiving
    /\ current \in Readings
    /\ dPosts \in SeqsUpTo(PostTexts, MaxPosts)
    /\ previousMessages = <<>>
    /\ repeated = FALSE
    /\ emoji = ""
    /\ message = <<>>
    /\ reparsed = NoFields
    /\ again = FALSE

\* batteryStatusEmoji, first half: the history entries of the device
Extract ==
    /\ dpc = "start"
    /\ previousMessages' = extractRecentMessagesForDevice(dName, dPosts)
    /\ dpc' = "extracted"
    /\ UNCHANGED <<pc, hVars, gVars, cVars, rqVars, current, repeated, emoji, message, reparsed, again,
                   dName, dPosts>>

\* batteryStatusEmoji, second half: the duplicate check and the emoji
Detect ==
    /\ dpc = "extracted"
    /\ repeated' = isRepeated(current, previousMessages)
    /\ emoji' = batteryStatusEmoji(dName, dPosts, current)
    /\ dpc' = "detected"
    /\ UNCHANGED <<pc, hVars, gVars, cVars, rqVars, current, previousMessages, message, reparsed, again,
                   dName, dPosts>>

\* generateStatusMessage's text
Compose ==
    /\ dpc = "detected"
    /\ message' = StatusMessage(dName, dPosts, current)
    /\ dpc' = "composed"
    /\ UNCHANGED <<pc, hVars, gVars, cVars, rqVars, current, previousMessages, repeated, emoji, reparsed,
                   again, dName, dPosts>>

\* the next run's History Parser and Duplicate Detector on the composed text
Reparse ==
    /\ dpc = "composed"
    /\ reparsed' = ParsedFields(message)
    /\ again' = isRepeated(current, <<message>>)
    /\ dpc' = "reparsed"
    /\ UNCHANGED <<pc, hVars, gVars, cVars, rqVars, current, previousMessages, repeated, emoji, message,
                   dName, dPosts>>

NextDetect == Extract \/ Detect \/ Compose \/ Reparse

SpecDetect == InitDetect /\ [][NextDetect]_vars

-----------------------------------------------------------------------------
(* Spec: one run of handler *)

targetDeviceTypes == {"Meter", "MeterPro(CO2)"}

\* a variant of isTargetDevice that takes every type
isTargetDeviceAny(deviceType) == TRUE

isTargetDevice(deviceType) == deviceType \in targetDeviceTypes


\* the first n posts of the feed: statuses?limit=n
Recent(n) == SubSeq(feed, 1, IF Len(feed) < n THEN Len(feed) ELSE n)

\* return resp.Body.DeviceList (a nil slice is an empty list)
DeviceListOf(o) == IF IsNil(o.Body.DeviceList) THEN <<>> ELSE Deref(o.Body.DeviceList)

\* the data points PutMetric builds
MetricData(st) ==
    (IF ~IsNil(st.Temperature) THEN <<"Temperature">> ELSE <<>>)
        \o (IF ~IsNil(st.Humidity) THEN <<"Humidity">> ELSE <<>>)
        \o (IF ~IsNil(st.CO2) THEN <<"CO2">> ELSE <<>>)

Init ==
    /\ pc = "start"
    /\ feed \in SeqsUpTo(FeedPosts, MaxFeed)
    /\ devices = <<>>
    /\ posts = <<>>
    /\ devIndex = 0
    /\ status = NoStatus
    /\ messages = <<>>
    /\ sources = <<>>
    /\ metrics = <<>>
    /\ published = <<>>
    /\ result = "none"
    /\ fetched = <<>>
    /\ directoryErr = "none"
    /\ historyFetches = <<>>
    /\ postOutcome = "none"
    /\ env \in Environments
    /\ batteryCheckPostCount = DefaultPostCount
    /\ config = ZeroConfig
    /\ RqIdle
    /\ DetectOff

\* generateSwitchBotHeaders() is evaluated and requestWithBackoff is entered
\* with a fresh response record
CallRequest(zero) ==
    /\ rqpc' = "get"
    /\ attempt' = 0
    /\ out' = zero
    /\ rqErr' = "none"
    /\ errCode' = 0
    /\ errMsg' = ""
    /\ gets' = 0
    /\ sleeps' = <<>>
    /\ resps' = <<>>
    /\ headers' = generateSwitchBotHeaders(nextNonce)
    /\ sent' = <<>>
    /\ nextNonce' = nextNonce + 1

\* the caller has taken the result of requestWithBackoff
LeaveRequest ==
    /\ rqpc' = "idle"
    /\ attempt' = 0
    /\ out' = ZeroResponse
    /\ rqErr' = "none"
    /\ errCode' = 0
    /\ errMsg' = ""
    /\ gets' = 0
    /\ sleeps' = <<>>
    /\ resps' = <<>>
    /\ headers' = NoHeaders
    /\ sent' = <<>>
    /\ UNCHANGED nextNonce

\* loadConfig (only the reading of config.json can fail), then fetchDevices
\* calls requestWithBackoff
LoadConfig ==
    /\ pc = "start"
    /\ \E ok \in (IF env.lambda THEN {TRUE} ELSE BOOLEAN) :
        IF ok
        THEN /\ batteryCheckPostCount' = LoadedPostCount(env, batteryCheckPostCount)
             /\ config' = LoadedConfig(env, batteryCheckPostCount, config)
             /\ pc' = "fetchDevices"
             /\ CallRequest(ZeroDeviceList)
             /\ UNCHANGED result
        ELSE /\ pc' = "done"
             /\ result' = "loadConfig error"
             /\ UNCHANGED <<batteryCheckPostCount, config, rqVars>>
    /\ UNCHANGED <<feed, devices, posts, devIndex, status, messages, sources,
                   metrics, published, env, gVars, dVars>>

\* fetchDevices returns: the listing, or the end of the run
DevicesReturn ==
    /\ pc = "fetchDevices"
    /\ rqpc = "returned"
    /\ IF rqErr = "nil"
       THEN /\ devices' = DeviceListOf(out)
            /\ pc' = "fetchPosts"
            /\ UNCHANGED result
       ELSE /\ pc' = "done"
            /\ result' = "fetchDevices error"
            /\ UNCHANGED devices
    /\ directoryErr' = rqErr
    /\ LeaveRequest
    /\ UNCHANGED <<feed, posts, devIndex, status, messages, sources, metrics,
                   published, fetched, historyFetches, postOutcome, cVars, dVars>>

\* a variant of FetchPosts that goes on with no posts when the fetch fails
FetchPostsGoesOn ==
    /\ pc = "fetchPosts"
    /\ \E o \in {"ok", "verify failed", "listing failed"} :
        /\ historyFetches' = Append(historyFetches, o)
        /\ posts' = IF o = "ok" THEN Recent(batteryCheckPostCount) ELSE <<>>
    /\ pc' = "loop"
    /\ devIndex' = 1
    /\ UNCHANGED <<feed, devices, status, messages, sources, metrics, published,
                   result, fetched, directoryErr, postOutcome, rqVars, cVars, dVars>>

\* fetchRecentMastodonPosts: verify_credentials, then the statuses listing
FetchPosts ==
    /\ pc = "fetchPosts"
    /\ \E o \in {"ok", "verify failed", "listing failed"} :
        /\ historyFetches' = Append(historyFetches, o)
        /\ IF o = "ok"
           THEN /\ posts' = Recent(batteryCheckPostCount)
                /\ pc' = "loop"
                /\ devIndex' = 1
                /\ UNCHANGED result
           ELSE /\ pc' = "done"
                /\ result' = "fetchRecentMastodonPosts error"
                /\ UNCHANGED <<posts, devIndex>>
    /\ UNCHANGED <<feed, devices, status, messages, sources, metrics, published,
                   fetched, directoryErr, postOutcome, rqVars, cVars, dVars>>

\* the loop meets a device that is no target: continue
SkipDevice ==
    /\ pc = "loop"
    /\ devIndex <= Len(devices)
    /\ ~isTargetDevice(devices[devIndex].DeviceType)
    /\ devIndex' = devIndex + 1
    /\ UNCHANGED <<pc, feed, devices, posts, status, messages, sources, metrics,
                   published, result, gVars, rqVars, cVars, dVars>>

\* a variant of FetchStatus that fetches the posts again for the device
FetchStatusRefetches ==
    /\ pc = "loop"
    /\ devIndex <= Len(devices)
    /\ isTargetDevice(devices[devIndex].DeviceType)
    /\ pc' = "fetchStatus"
    /\ CallRequest(ZeroResponse)
    /\ historyFetches' = Append(historyFetches, "ok")
    /\ posts' = Recent(batteryCheckPostCount)
    /\ UNCHANGED <<feed, devices, devIndex, status, messages, sources, metrics,
                   published, result, fetched, directoryErr, postOutcome, cVars, dVars>>

\* generateStatusMessage: fetchDeviceStatus calls requestWithBackoff
FetchStatus ==
    /\ pc = "loop"
    /\ devIndex <= Len(devices)
    /\ isTargetDevice(devices[devIndex].DeviceType)
    /\ pc' = "fetchStatus"
    /\ CallRequest(ZeroResponse)
    /\ UNCHANGED <<hVars, gVars, cVars, dVars>>

\* a variant of StatusReturn that ends the run when the fetch fails
StatusReturnAborts ==
    /\ pc = "fetchStatus"
    /\ rqpc = "returned"
    /\ IF rqErr = "nil"
       THEN /\ status' = out.Body
            /\ pc' = "metric"
            /\ UNCHANGED result
       ELSE /\ pc' = "done"
            /\ result' = "fetchDeviceStatus error"
            /\ UNCHANGED status
    /\ fetched' = Append(fetched, [device |-> devIndex, err |-> rqErr])
    /\ LeaveRequest
    /\ UNCHANGED <<feed, devices, posts, devIndex, messages, sources, metrics,
                   published, directoryErr, historyFetches, postOutcome, cVars, dVars>>

\* fetchDeviceStatus returns: the reading, or the device is left out
StatusReturn ==
    /\ pc = "fetchStatus"
    /\ rqpc = "returned"
    /\ IF rqErr = "nil"
       THEN /\ status' = out.Body
            /\ pc' = "metric"
            /\ UNCHANGED devIndex
       ELSE /\ pc' = "loop"
            /\ devIndex' = devIndex + 1
            /\ UNCHANGED status
    /\ fetched' = Append(fetched, [device |-> devIndex, err |-> rqErr])
    /\ LeaveRequest
    /\ UNCHANGED <<feed, devices, posts, messages, sources, metrics, published,
                   result, directoryErr, historyFetches, postOutcome, cVars, dVars>>

\* a variant of PutMetric whose error leaves the device out
PutMetricFatal ==
    /\ pc = "metric"
    /\ \E o \in {"ok", "config failed", "put failed"} :
        /\ o = "put failed" => MetricData(status) # <<>>
        /\ metrics' = Append(metrics,
               [DeviceId |-> devices[devIndex].DeviceID,
                Data |-> IF o = "config failed" THEN <<>> ELSE MetricData(status),
                Error |-> o # "ok"])
        /\ IF o = "ok"
           THEN pc' = "compose" /\ UNCHANGED <<devIndex, status>>
           ELSE pc' = "loop" /\ devIndex' = devIndex + 1 /\ status' = NoStatus
    /\ UNCHANGED <<feed, devices, posts, messages, sources,
                   published, result, gVars, rqVars, cVars, dVars>>

\* PutMetric: its error is logged only
PutMetric ==
    /\ pc = "metric"
    /\ \E o \in {"ok", "config failed", "put failed"} :
        /\ o = "put failed" => MetricData(status) # <<>>
        /\ metrics' = Append(metrics,
               [DeviceId |-> devices[devIndex].DeviceID,
                Data |-> IF o = "config failed" THEN <<>> ELSE MetricData(status),
                Error |-> o # "ok"])
    /\ pc' = "compose"
    /\ UNCHANGED <<feed, devices, posts, devIndex, status, messages, sources,
                   published, result, gVars, rqVars, cVars, dVars>>

\* a variant of ComposeMessage that puts the new message first
ComposeMessagePrepends ==
    /\ pc = "compose"
    /\ messages' = <<StatusMessage(devices[devIndex].DeviceName, posts, status)>>
                       \o messages
    /\ sources' = Append(sources, [device |-> devIndex, status |-> status])
    /\ devIndex' = devIndex + 1
    /\ status' = NoStatus
    /\ pc' = "loop"
    /\ UNCHANGED <<feed, devices, posts, metrics, published, result, gVars,
                   rqVars, cVars, dVars>>

\* the message is built and appended
ComposeMessage ==
    /\ pc = "compose"
    /\ messages' = Append(messages,
           StatusMessage(devices[devIndex].DeviceName, posts, status))
    /\ sources' = Append(sources, [device |-> devIndex, status |-> status])
    /\ devIndex' = devIndex + 1
    /\ status' = NoStatus
    /\ pc' = "loop"
    /\ UNCHANGED <<feed, devices, posts, metrics, published, result, gVars,
                   rqVars, cVars, dVars>>

\* a variant of ReturnNothing that posts the empty report
ReturnNothingPublishes ==
    /\ pc = "loop"
    /\ devIndex > Len(devices)
    /\ Len(messages) = 0
    /\ published' = Append(published, Join(messages))
    /\ postOutcome' = "ok"
    /\ feed' = <<RenderPost(Join(messages))>> \o feed
    /\ pc' = "done"
    /\ result' = "nil"
    /\ UNCHANGED <<devices, posts, devIndex, status, messages, sources,
                   metrics, fetched, directoryErr, historyFetches, rqVars, cVars, dVars>>

\* the loop is over and no message was composed: return nil
ReturnNothing ==
    /\ pc = "loop"
    /\ devIndex > Len(devices)
    /\ Len(messages) = 0
    /\ pc' = "done"
    /\ result' = "nil"
    /\ UNCHANGED <<feed, devices, posts, devIndex, status, messages, sources,
                   metrics, published, gVars, rqVars, cVars, dVars>>

\* the loop is over: postToMastodon(strings.Join(messages, "\n"))
Publish ==
    /\ pc = "loop"
    /\ devIndex > Len(devices)
    /\ Len(messages) > 0
    /\ published' = Append(published, Join(messages))
    /\ \E o \in {"ok", "http failed", "refused"} :
        /\ postOutcome' = o
        /\ IF o = "ok"
           THEN /\ feed' = <<RenderPost(Join(messages))>> \o feed
                /\ result' = "nil"
           ELSE /\ result' = "postToMastodon error"
                /\ UNCHANGED feed
    /\ pc' = "done"
    /\ UNCHANGED <<devices, posts, devIndex, status, messages, sources, metrics,
                   fetched, directoryErr, historyFetches, rqVars, cVars, dVars>>

Next ==
    \/ LoadConfig
    \/ Attempt
    \/ WakeUp
    \/ DevicesReturn
    \/ FetchPosts
    \/ SkipDevice
    \/ FetchStatus
    \/ StatusReturn
    \/ PutMetric
    \/ ComposeMessage
    \/ ReturnNothing
    \/ Publish

Spec == Init /\ [][Next]_vars

\* the runs in which every HTTP call and every sleep returns: handler is one
\* sequential routine, so a step that can be taken is taken
InitLive ==
    /\ Init
    /\ feed = <<>>
    /\ env \in {LambdaUnset, StandaloneOne}

SpecLive == InitLive /\ [][Next]_vars /\ WF_vars(Next)

-----------------------------------------------------------------------------
(* Claims about the Duplicate Detector, checked under SpecDetect *)

Detected == dpc \in {"detected", "composed", "reparsed"}

\* the three compared fields of the reading
CurrentFields ==
    [Temperature |-> current.Temperature, Humidity |-> current.Humidity,
     CO2 |-> current.CO2]

HasSymbol(text, sym) == \E i \in 1..Len(text) : text[i] = sym

\* C1: with no history entry for the device, the reading is treated as not
\* repeated, and a device with a battery is rendered with the battery symbol,
\* not the warning symbol.
C1_EmptyHistoryNotRepeated ==
    /\ (Detected /\ previousMessages = <<>>) => (~repeated /\ emoji = "Batt")
    /\ (dpc \in {"composed", "reparsed"} /\ previousMessages = <<>>
            /\ ~IsNil(current.Battery))
        => (HasSymbol(message, "Batt") /\ ~HasSymbol(message, "Warn"))

\* C2: with at least one history entry, the reading is repeated if and only
\* if every entry's parsed temperature, humidity and CO2 equal the reading's.
C2_RepeatedIffEveryEntryEqual ==
    (Detected /\ previousMessages # <<>>)
        => (repeated <=> \A i \in 1..Len(previousMessages) :
                             ParsedFields(previousMessages[i]) = CurrentFields)

\* the newest entry equals the reading, an older one differs: not repeated
C2_Witness ==
    /\ dpc = "detected"
    /\ Len(previousMessages) = 2
    /\ ParsedFields(previousMessages[1]) = CurrentFields
    /\ ParsedFields(previousMessages[2]) # CurrentFields
    /\ ~repeated

\* what field-wise equality is specified to be
FieldEquality(a, b) ==
    \/ IsNil(a) /\ IsNil(b)
    \/ ~IsNil(a) /\ ~IsNil(b) /\ Deref(a) = Deref(b)

\* C10: ptrEquals holds two absent values equal, an absent and a present
\* value unequal, two present values equal exactly when they are numerically
\* identical; a field with no label in the history entry is absent, not zero,
\* so an absent historical CO2 differs from a present CO2 (of 0 too).
C10_PtrEquals ==
    Detected => \A i \in 1..Len(previousMessages) :
        LET p == ParsedFields(previousMessages[i])
        IN  /\ ptrEquals(p.Temperature, current.Temperature)
                   <=> FieldEquality(p.Temperature, current.Temperature)
            /\ ptrEquals(p.Humidity, current.Humidity)
                   <=> FieldEquality(p.Humidity, current.Humidity)
            /\ ptrEquals(p.CO2, current.CO2) <=> FieldEquality(p.CO2, current.CO2)
            /\ ~HasSymbol(previousMessages[i], "CO2: ") => IsNil(p.CO2)
            /\ ~HasSymbol(previousMessages[i], "Temp: ") => IsNil(p.Temperature)
            /\ ~HasSymbol(previousMessages[i], "Hum: ") => IsNil(p.Humidity)
            /\ (IsNil(p.CO2) /\ ~IsNil(current.CO2)) => ~repeated
            /\ (~IsNil(p.Temperature) /\ IsNil(current.Temperature)) => ~repeated
            \* 23.50 in the text equals 23.5 and differs from 23.6
            /\ stringsIndex(previousMessages[i],
                            <<"Temp: ", "2", "3", ".", "5", "0", "Deg">>) # 0 - 1
                => /\ ptrEquals(p.Temperature, Some(Num(235, 1)))
                   /\ ~ptrEquals(p.Temperature, Some(Num(236, 1)))

\* an entry with no CO2 line against a reading with CO2 0: not repeated
C10_Witness ==
    /\ dpc = "detected"
    /\ Len(previousMessages) = 1
    /\ ~HasSymbol(previousMessages[1], "CO2: ")
    /\ current.CO2 = Some(0)
    /\ ParsedFields(previousMessages[1]).Temperature = current.Temperature
    /\ ParsedFields(previousMessages[1]).Humidity = current.Humidity
    /\ ~repeated

\* C4: composing a reading and parsing the composed text gives back the same
\* present/absent status and value of temperature, humidity and CO2, so the
\* reading is repeated against its own message.
C4_RoundTrip ==
    dpc = "reparsed" => (reparsed = CurrentFields /\ again)

-----------------------------------------------------------------------------
(* Claims about the Backoff Fetcher, checked under SpecFetch *)

Is190(r) == r.kind = "json" /\ r.statusCode = 190
Last(seq) == seq[Len(seq)]
AllButLast190 == \A i \in 1..(Len(resps) - 1) : Is190(resps[i])

RECURSIVE Sum(_)
Sum(seq) == IF seq = <<>> THEN 0 ELSE Head(seq) + Sum(Tail(seq))

\* C5: k responses with statusCode 190 (k in 0..4) and then one with
\* statusCode 100: exactly k+1 GET attempts, success, and the caller receives
\* the body of that final response.
C5_Recovery ==
    (/\ rqpc = "returned"
     /\ resps # <<>>
     /\ Last(resps).kind = "json"
     /\ Last(resps).statusCode = 100
     /\ AllButLast190)
        => /\ gets = Len(resps)
           /\ Len(resps) <= 5
           /\ rqErr = "nil"
           /\ out.Body = Decoded(Last(resps)).Body

\* C6: when every response carries statusCode 190 there are exactly 5 GET
\* attempts, never a sixth, and the call fails with the max-retries error
\* that carries the message of the fifth response.
C6_Exhaustion ==
    /\ gets <= 5
    /\ Len(resps) = gets
    /\ (\A i \in 1..Len(resps) : Is190(resps[i]))
        => /\ rqpc = "returned" <=> Len(resps) = 5
           /\ rqpc = "returned"
                => /\ rqErr = "maxretries"
                   /\ errMsg = resps[5].message

\* five 190 responses, the fifth with another message than the fourth
C6_Witness ==
    /\ rqpc = "returned"
    /\ rqErr = "maxretries"
    /\ gets = 5
    /\ resps[4].message # resps[5].message
    /\ errMsg = resps[5].message

\* status 250 on the first attempt: exactly one attempt
C7_FirstAttempt ==
    (Len(resps) >= 1 /\ resps[1].kind = "json" /\ resps[1].statusCode = 250)
        => (gets = 1 /\ sleeps = <<>> /\ rqpc = "returned")

\* C7: an envelope whose statusCode is neither 100 nor 190, on any attempt,
\* ends the call at once with the unexpected-status error carrying that code
\* and message: no sleep and no GET follows it.
C7_NonRetryable ==
    /\ C7_FirstAttempt
    /\ (/\ resps # <<>>
         /\ Last(resps).kind = "json"
         /\ Last(resps).statusCode \notin {100, 190})
            => /\ rqpc = "returned"
               /\ rqErr = "unexpected"
               /\ errCode = Last(resps).statusCode
               /\ errMsg = Last(resps).message
               /\ gets = Len(resps)
               /\ Len(sleeps) = Len(resps) - 1
               /\ AllButLast190

\* status 250 on the third attempt, after two 190 responses
C7_Witness ==
    /\ rqpc = "returned"
    /\ Len(resps) = 3
    /\ Is190(resps[1]) /\ Is190(resps[2])
    /\ resps[3].kind = "json" /\ resps[3].statusCode = 250
    /\ rqErr = "unexpected"
    /\ gets = 3

\* C8: a connection error, a body-read error or a malformed JSON body, on any
\* attempt, makes the call return an error at once: no sleep and no GET
\* follows it.
C8_TransportFailure ==
    (resps # <<>> /\ Last(resps).kind \in TransportKinds)
        => /\ rqpc = "returned"
           /\ rqErr = (CASE Last(resps).kind = "http" -> "http"
                         [] Last(resps).kind = "read" -> "read"
                         [] Last(resps).kind = "badjson" -> "unmarshal")
           /\ gets = Len(resps)
           /\ Len(sleeps) = Len(resps) - 1
           /\ AllButLast190

\* a malformed body on the second attempt, after one 190 response
C8_Witness ==
    /\ rqpc = "returned"
    /\ Len(resps) = 2
    /\ Is190(resps[1])
    /\ resps[2].kind = "badjson"
    /\ rqErr = "unmarshal"
    /\ sleeps = <<1>>

\* C9: a sleep happens only directly after a 190 response on attempts 0..3
\* and lasts 2^attempt seconds (1, 2, 4, 8 in that order); no sleep follows
\* the fifth attempt and the sleeps of one call total at most 15 seconds.
C9_BackoffSchedule ==
    /\ Len(sleeps) <= 4
    /\ sleeps = SubSeq(<<1, 2, 4, 8>>, 1, Len(sleeps))
    /\ \A i \in 1..Len(sleeps) : Is190(resps[i])
    /\ Sum(sleeps) <= 15
    /\ Len(sleeps) <= gets
    /\ rqpc = "sleep"
        => /\ Is190(Last(resps))
           /\ attempt \in 0..3
           /\ Len(sleeps) = attempt + 1
           /\ gets = attempt + 1
    /\ rqpc # "sleep" => Len(sleeps) = attempt
    /\ gets = 5 => (rqpc = "returned" /\ Len(sleeps) = 4)

\* all four sleeps were taken
C9_Witness ==
    /\ rqpc = "returned"
    /\ sleeps = <<1, 2, 4, 8>>
    /\ gets = 5

-----------------------------------------------------------------------------
(* Claims about the run of handler, checked under Spec *)

\* the message at place i was composed for a reading the Duplicate Detector
\* flagged as repeated against at least one history entry of its device
FlaggedRepeated(i) ==
    LET prev == extractRecentMessagesForDevice(
                    devices[sources[i].device].DeviceName, posts)
    IN  /\ ~IsNil(sources[i].status.Battery)
        /\ prev # <<>>
        /\ isRepeated(sources[i].status, prev)
        /\ HasSymbol(messages[i], "Warn")

\* C3: a reading that is detected as repeated is not published again: no
\* text handed to the publish call holds the message of such a device.
C3_NoRepublish ==
    \A i \in 1..Len(messages) :
        FlaggedRepeated(i)
            => \A k \in 1..Len(published) :
                   stringsIndex(published[k], messages[i]) = 0 - 1

-----------------------------------------------------------------------------
(* Claims about the run of handler, checked under Spec *)

IsPrefix(a, b) == Len(a) <= Len(b) /\ SubSeq(b, 1, Len(a)) = a

\* the loop over the devices has ended and handler has returned
LoopOver == pc = "done" /\ devIndex >= 1 /\ devIndex > Len(devices)

\* the places in the listing of the devices of a recognized type
Recognized ==
    {i \in 1..Len(devices) : devices[i].DeviceType \in {"Meter", "MeterPro(CO2)"}}

FetchedOk == {i \in 1..Len(fetched) : fetched[i].err = "nil"}
FetchedFailed == {i \in 1..Len(fetched) : fetched[i].err # "nil"}

\* C11: when the loop is over, postToMastodon is called exactly once if a
\* message was composed, and handler returns what that call returned; with
\* no message there is no call and handler returns nil.  No call is made
\* before the run ends.
C11_PublishDecision ==
    /\ Len(published) <= 1
    /\ pc # "done" => published = <<>> /\ postOutcome = "none"
    /\ LoopOver =>
        IF Len(messages) > 0
        THEN /\ published = <<Join(messages)>>
             /\ postOutcome # "none"
             /\ result = IF postOutcome = "ok" THEN "nil" ELSE "postToMastodon error"
        ELSE /\ published = <<>>
             /\ postOutcome = "none"
             /\ result = "nil"

\* every recognized device's fetch failed: no call, and nil
C11_Witness ==
    /\ LoopOver
    /\ Recognized # {}
    /\ FetchedOk = {}
    /\ published = <<>>
    /\ result = "nil"

\* C12: a failed status fetch does not end the run; the device is left out,
\* every other recognized device is fetched, and the message of every
\* device whose fetch succeeded is in the published report.
C12_FaultIsolation ==
    /\ fetched # <<>> => result \in {"none", "nil", "postToMastodon error"}
    /\ \A i \in FetchedFailed :
           \A k \in 1..Len(sources) : sources[k].device # fetched[i].device
    /\ LoopOver =>
        /\ \A d \in Recognized : \E i \in 1..Len(fetched) : fetched[i].device = d
        /\ \A i \in FetchedOk :
               /\ Len(published) = 1
               /\ \E k \in 1..Len(sources) :
                      /\ sources[k].device = fetched[i].device
                      /\ Len(messages[k]) > 0
                      /\ stringsIndex(published[1], messages[k]) >= 0

\* the first device's fetch failed, the second device is in the report
C12_Witness ==
    /\ LoopOver
    /\ Len(fetched) = 2
    /\ fetched[1].err # "nil"
    /\ fetched[2].err = "nil"
    /\ Len(published) = 1

NothingAfterwards ==
    /\ pc = "done"
    /\ fetched = <<>>
    /\ metrics = <<>>
    /\ published = <<>>
    /\ postOutcome = "none"
    /\ rqpc = "idle"

\* C13: when fetchDevices fails handler returns its error and there is no
\* history fetch, status fetch, metrics call or publish call; when
\* fetchRecentMastodonPosts fails handler returns its error and there is no
\* status fetch, metrics call or publish call.
C13_FailFast ==
    /\ directoryErr \notin {"none", "nil"} =>
        /\ result = "fetchDevices error"
        /\ historyFetches = <<>>
        /\ NothingAfterwards
    /\ (\E i \in 1..Len(historyFetches) : historyFetches[i] # "ok") =>
        /\ result = "fetchRecentMastodonPosts error"
        /\ Len(historyFetches) = 1
        /\ NothingAfterwards

\* the history fetch fails with a recognized device in the listing
C13_Witness ==
    /\ historyFetches = <<"listing failed">>
    /\ Recognized # {}
    /\ pc = "done"

\* C14: the status fetches follow the order of the listing, one at a
\* time, and the report holds the messages of the devices whose fetch
\* succeeded in that order, each once.
C14_Ordering ==
    /\ \A i, j \in 1..Len(fetched) : i < j => fetched[i].device < fetched[j].device
    /\ pc \in {"fetchStatus", "metric", "compose"} =>
           \A i \in 1..Len(fetched) :
               fetched[i].device < devIndex \/ (pc # "fetchStatus" /\ i = Len(fetched))
    /\ \A i, j \in 1..Len(sources) : i < j => sources[i].device < sources[j].device
    /\ pc \notin {"metric", "compose"} =>
           {sources[k].device : k \in 1..Len(sources)}
               = {fetched[i].device : i \in FetchedOk}
    /\ Len(messages) = Len(sources)
    /\ \A k \in 1..Len(sources) :
           IsPrefix(makeDeviceHeader(devices[sources[k].device].DeviceName),
                    messages[k])
    /\ published # <<>> => published = <<Join(messages)>>

\* two devices are in the report, the MeterPro(CO2) first as listed
C14_Witness ==
    /\ LoopOver
    /\ devices = <<MeterProLivingRoom, MeterLiving>>
    /\ Len(sources) = 2
    /\ Len(published) = 1
    /\ stringsIndex(published[1], makeDeviceHeader(NameLivingRoom)) = 0
    /\ stringsIndex(published[1], <<"LF", "# ", "Living", " (">>) > 0

-----------------------------------------------------------------------------
(* Claims about the Message Composer, checked under SpecDetect *)

Composed == dpc \in {"composed", "reparsed"}

\* the lines of a text, each without its line feed
RECURSIVE Lines(_)
Lines(text) ==
    IF text = <<>> THEN <<>>
    ELSE LET i == stringsIndex(text, <<"LF">>)
         IN  IF i < 0 THEN <<text>>
             ELSE <<SubSeq(text, 1, i)>> \o Lines(SubSeq(text, i + 2, Len(text)))

\* C15: the header line has the battery part exactly when the reading has
\* a battery value; its symbol is the warning exactly when the detector
\* found the reading repeated, and the battery otherwise; without a battery
\* value the message has no symbol and does not depend on the history.
C15_BatteryIndicator ==
    Composed =>
        LET h == Lines(message)[1]
        IN  IF ~IsNil(current.Battery)
            THEN h = <<"# ">> \o dName
                         \o <<" (", IF repeated THEN "Warn" ELSE "Batt">>
                         \o FormatInt(Deref(current.Battery)) \o <<"%", ")">>
            ELSE /\ h = <<"# ">> \o dName
                 /\ ~HasSymbol(message, "Warn")
                 /\ ~HasSymbol(message, "Batt")
                 /\ message = StatusMessage(dName, <<>>, current)

\* the posts hold the same reading: the warning stands before the level
C15_Witness ==
    /\ Composed
    /\ ~IsNil(current.Battery)
    /\ previousMessages # <<>>
    /\ repeated
    /\ stringsIndex(message, <<" (", "Warn", "8", "0", "%", ")", "LF">>) > 0

\* the lines the present fields of the reading give, in the claimed order
FieldLines ==
    (IF IsNil(current.Temperature) THEN <<>>
     ELSE <<(<<"Temp: ">> \o FormatOneDecimal(Deref(current.Temperature))
                 \o <<"Deg">>)>>)
    \o (IF IsNil(current.Humidity) THEN <<>>
        ELSE <<(<<"Hum: ">> \o FormatOneDecimal(Deref(current.Humidity))
                    \o <<"%">>)>>)
    \o (IF IsNil(current.CO2) THEN <<>>
        ELSE <<(<<"CO2: ">> \o FormatInt(Deref(current.CO2)) \o <<"ppm">>)>>)

\* C16: the message is the header line "# " + name followed by one line
\* for each present field, temperature, then humidity, then CO2, and by
\* nothing else; with no present field it is the header line alone.
C16_ComposerLines ==
    Composed =>
        LET ls == Lines(message)
        IN  /\ Len(ls) = 1 + Len(FieldLines)
            /\ IsPrefix(<<"# ">> \o dName, ls[1])
            /\ \A k \in 1..Len(FieldLines) : IsPrefix(FieldLines[k], ls[k + 1])
            /\ message[Len(message)] = "LF"
            /\ (IsNil(current.Temperature) /\ IsNil(current.Humidity)
                    /\ IsNil(current.CO2)) => Len(ls) = 1

\* the three fields are present: four lines
C16_Witness ==
    /\ Composed
    /\ ~IsNil(current.Temperature)
    /\ ~IsNil(current.Humidity)
    /\ ~IsNil(current.CO2)
    /\ Len(Lines(message)) = 4

Icons == {"Fire", "Wind", "Tree"}

IconsOf(text) == {i \in 1..Len(text) : text[i] \in Icons}

\* C17: the CO2 line has one icon: fire from 1500 on, wind from 1000 to
\* 1499, tree below 1000; 999, 1000, 1499 and 1500 give tree, wind, wind
\* and fire.  A message without a CO2 line has no icon.
C17_CO2TierIcon ==
    Composed =>
        IF IsNil(current.CO2) THEN IconsOf(message) = {}
        ELSE LET v == Deref(current.CO2)
                 line == Last(Lines(message))
             IN  /\ Cardinality(IconsOf(message)) = 1
                 /\ Cardinality(IconsOf(line)) = 1
                 /\ line[1] = "CO2: "
                 /\ v >= 1500 => Last(line) = "Fire"
                 /\ (1000 <= v /\ v < 1500) => Last(line) = "Wind"
                 /\ v < 1000 => Last(line) = "Tree"
                 /\ v = 999 => Last(line) = "Tree"
                 /\ v = 1000 => Last(line) = "Wind"
                 /\ v = 1499 => Last(line) = "Wind"
                 /\ v = 1500 => Last(line) = "Fire"

\* 1500 ppm: the first value of the highest tier
C17_Witness ==
    /\ Composed
    /\ current.CO2 = Some(1500)
    /\ Last(Lines(message)) = <<"CO2: ", "1", "5", "0", "0", "ppm", " ", "Fire">>

-----------------------------------------------------------------------------
(* Claims about the metrics, the classifier and the request headers *)

\* the texts the readings of the composed devices give
SourceMessages ==
    [k \in 1..Len(sources) |->
        StatusMessage(devices[sources[k].device].DeviceName, posts,
                      sources[k].status)]

HandlerResults ==
    {"none", "nil", "loadConfig error", "fetchDevices error",
     "fetchRecentMastodonPosts error", "postToMastodon error"}

\* C18: whatever PutMetric returns, the device's message is composed with
\* the text its reading gives, the report is posted, and handler returns
\* no error other than that of a failed step or of the post itself.
C18_MetricsIsolation ==
    /\ Len(metrics) = Len(sources) + (IF pc = "compose" THEN 1 ELSE 0)
    /\ \A k \in 1..Len(sources) :
           metrics[k].DeviceId = devices[sources[k].device].DeviceID
    /\ Len(messages) = Len(sources)
    /\ pc = "loop" => messages = SourceMessages
    /\ result \in HandlerResults
    /\ result = "postToMastodon error" => postOutcome \in {"http failed", "refused"}
    /\ (LoopOver /\ metrics # <<>>) => published = <<Join(messages)>>

\* a metrics call failed, and the report with that device was posted
C18_Witness ==
    /\ LoopOver
    /\ Len(metrics) = 1
    /\ metrics[1].Error
    /\ published = <<messages[1]>>
    /\ result = "nil"

\* C19: status fetches, metrics calls and report sections exist only for
\* devices of type "Meter" or "MeterPro(CO2)"; a device of another type is
\* never fetched and its header is not in the report.
C19_DeviceClassifier ==
    /\ \A i \in 1..Len(fetched) : fetched[i].device \in Recognized
    /\ pc \in {"fetchStatus", "metric", "compose"} => devIndex \in Recognized
    /\ \A k \in 1..Len(metrics) :
           \E d \in Recognized : devices[d].DeviceID = metrics[k].DeviceId
    /\ \A k \in 1..Len(sources) : sources[k].device \in Recognized
    /\ \A i \in (1..Len(devices)) \ Recognized :
           \A k \in 1..Len(published) :
               stringsIndex(published[k], makeDeviceHeader(devices[i].DeviceName)) < 0

\* a hub stands before a meter: one fetch, one section
C19_Witness ==
    /\ LoopOver
    /\ devices = <<HubBed, MeterLiving>>
    /\ Len(fetched) = 1
    /\ Len(metrics) = 1
    /\ Len(published) = 1

\* C20: no two GET requests carry the same nonce or the same signature,
\* the retries of one call of requestWithBackoff included.
C20_FreshNonce ==
    \A i, j \in 1..Len(sent) :
        i # j => sent[i].nonce # sent[j].nonce /\ sent[i].sign # sent[j].sign

-----------------------------------------------------------------------------
(* Claims about the retries of the directory fetch and of one call *)

\* C21: the directory fetch sends one GET and no more: a directory response
\* with statusCode 190 is followed by no second directory request.
C21_DirectorySingleGet ==
    pc = "fetchDevices" => gets <= 1

\* C27: a call that succeeds hands over the decoding of its last response
\* alone: nothing of the earlier 190 responses is left in the record.
C27_NoCarryOver ==
    (rqpc = "returned" /\ rqErr = "nil") => out = Decoded(Last(resps))

ReturnedErrors == {"nil", "http", "read", "unmarshal", "unexpected", "maxretries"}

\* C28: the fall-through error is never returned: every call returns from
\* inside the loop, with nil, a transport error, the unexpected-status
\* error or the max-retries error, and attempt stays within 0..4.
C28_NoFallThrough ==
    /\ rqErr # "unreachable"
    /\ attempt \in 0..4
    /\ rqpc = "returned" => rqErr \in ReturnedErrors
    /\ rqpc = "sleep" => attempt < 4
    /\ rqpc # "returned" => rqErr = "none"

\* the fifth attempt ends the call from inside the loop
C28_Witness ==
    /\ rqpc = "returned"
    /\ attempt = 4
    /\ Len(sleeps) = 4
    /\ rqErr = "maxretries"

-----------------------------------------------------------------------------
(* Claims about the history, the metrics and the sections of a post *)

InLoop == pc \in {"loop", "fetchStatus", "metric", "compose"}

\* C22: fetchRecentMastodonPosts is called once in every run that gets
\* past fetchDevices, before the first status fetch and also when no device
\* is recognized, and never again; while the devices are processed the
\* list of posts stays the list that call returned.
C22_HistoryOnce ==
    /\ Len(historyFetches) <= 1
    /\ directoryErr # "nil" => historyFetches = <<>>
    /\ (directoryErr = "nil" /\ pc # "fetchPosts") => Len(historyFetches) = 1
    /\ (InLoop \/ fetched # <<>> \/ metrics # <<>>) => historyFetches = <<"ok">>
    /\ InLoop => posts = Recent(batteryCheckPostCount)

\* a listing without a recognized device: the posts were fetched all the same
C22_Witness ==
    /\ LoopOver
    /\ devices # <<>>
    /\ Recognized = {}
    /\ historyFetches = <<"ok">>
    /\ posts # <<>>

\* the present numeric fields of a reading
PresentFields(st) ==
    {f \in {"Battery", "Temperature", "Humidity", "CO2"} : ~IsNil(st[f])}

\* C23: a metrics call that succeeds sends one data point for each present
\* field of the reading, battery, temperature, humidity and CO2, under the
\* device's id, and none for an absent field.
C23_MetricsPerField ==
    \A k \in 1..Len(sources) :
        ~metrics[k].Error =>
            /\ metrics[k].DeviceId = devices[sources[k].device].DeviceID
            /\ Len(metrics[k].Data) = Cardinality(PresentFields(sources[k].status))

\* the section at the head of a history entry: up to the next header
OwnSection(msg) ==
    LET later == {j \in 2..Len(msg) : msg[j] = "# "}
    IN  IF later = {} THEN msg
        ELSE SubSeq(msg, 1, (CHOOSE j \in later : \A k \in later : j <= k) - 1)

\* the history entries of the device that is being composed
EntriesOfDevice ==
    extractRecentMessagesForDevice(devices[devIndex].DeviceName, posts)

\* C25: the values recovered for a device from a post with several
\* sections are those of the device's own section: a value under a later
\* header is not taken.
C25_OwnSectionOnly ==
    pc = "compose" =>
        \A i \in 1..Len(EntriesOfDevice) :
            ParsedFields(EntriesOfDevice[i])
                = ParsedFields(OwnSection(EntriesOfDevice[i]))

\* the text has a section whose header names exactly this device
HasSectionOf(text, deviceName) ==
    \E j \in 1..Len(text) :
        /\ j + Len(deviceName) <= Len(text)
        /\ SubSeq(text, j, j + Len(deviceName)) = makeDeviceHeader(deviceName)
        /\ \/ j + Len(deviceName) = Len(text)
           \/ text[j + Len(deviceName) + 1] \in {" (", "LF"}

\* C26: the history of a device is made of the posts that hold a section
\* of a device with that very name: a post that only names a device whose
\* name begins with it is not selected.
C26_NameMatching ==
    pc = "compose" =>
        Len(EntriesOfDevice)
            = Cardinality({i \in 1..Len(posts) :
                  HasSectionOf(stripHTMLTags(posts[i]), devices[devIndex].DeviceName)})

-----------------------------------------------------------------------------
(* The window of the recent-posts query *)

\* the count the run is configured with: the positive value of the
\* environment in the managed function, the value of config.json in
\* standalone execution, 7 otherwise
ConfiguredCount ==
    IF env.lambda
    THEN IF ~IsNil(Atoi(env.envPostCount)) /\ Deref(Atoi(env.envPostCount)) > 0
         THEN Deref(Atoi(env.envPostCount))
         ELSE 7
    ELSE IF IsNil(env.fileCount) THEN 7 ELSE Deref(env.fileCount)

\* C24: the recent-posts query asks for the configured number of posts in
\* both execution contexts, and for 7 when none is configured.
C24_WindowSize ==
    InLoop =>
        posts = SubSeq(feed, 1, IF Len(feed) < ConfiguredCount
                                THEN Len(feed) ELSE ConfiguredCount)

-----------------------------------------------------------------------------
(* Termination, checked under SpecLive *)

\* the calls of requestWithBackoff that have returned
FinishedCalls ==
    (IF directoryErr # "none" THEN 1 ELSE 0) + Len(fetched)

\* no more GET requests than this were sent so far: five for every call
\* that has returned, and those of the call that is running
GetsAtMost == 5 * FinishedCalls + gets

EarlyErrors ==
    {"loadConfig error", "fetchDevices error", "fetchRecentMastodonPosts error"}

\* the three ways a run ends
EndsBeforeLoop ==
    result \in EarlyErrors /\ devIndex = 0 /\ published = <<>>
EndsWithoutPublish ==
    result = "nil" /\ LoopOver /\ published = <<>> /\ postOutcome = "none"
EndsWithPublish ==
    /\ LoopOver
    /\ Len(published) = 1
    /\ result = IF postOutcome = "ok" THEN "nil" ELSE "postToMastodon error"

RunBounds ==
    /\ gets <= 5
    /\ directoryErr # "nil" => fetched = <<>>
    /\ GetsAtMost <= 5 * (1 + Cardinality(Recognized))
    /\ pc = "done" =>
           /\ rqpc = "idle"
           /\ Cardinality({b \in {"before", "quiet", "publish"} :
                  \/ b = "before" /\ EndsBeforeLoop
                  \/ b = "quiet" /\ EndsWithoutPublish
                  \/ b = "publish" /\ EndsWithPublish}) = 1

\* C29: every run ends, in one of three ways: an error before the loop, nil
\* without a publish call, or what the one publish call returned; the GET
\* requests of a run are at most 5 * (1 + the number of recognized devices).
C29_Termination == []RunBounds /\ <>(pc = "done")

\* both devices answered 190 five times, and the run ended
C29_Witness ==
    /\ pc = "done"
    /\ Len(fetched) = 2
    /\ fetched[1].err = "maxretries"
    /\ fetched[2].err = "maxretries"
    /\ EndsWithoutPublish

====
